---------------------------- MODULE Spec2Model ----------------------------
(***************************************************************************)
(* kundenbot-template: the admin ingestion route, the command-line ingest  *)
(* script and the chat routes, as state machines over one tenant-scoped    *)
(* store.  Every await of the source is one step; what an external call    *)
(* (store, fetch, embedding, generation) answers is chosen by \E.          *)
(***************************************************************************)
EXTENDS Integers, Sequences, FiniteSets, TLC

(***************************************************************************)
(* Bounds of the model.  The page budgets, the link cap, the content       *)
(* thresholds and the chunk window are numbers of the source scaled down   *)
(* (the source's value is given with each); the code reads them only in    *)
(* comparisons and slices, which are kept as written.                      *)
(***************************************************************************)
\* route.ts:103 `const maxPages = 8`, scaled.
maxPages == 3
\* route.ts:187 `links.slice(0, 10)`, scaled (10 > 8 - 1 in the source, 3 > 3 - 1 here).
linkCap == 3
\* route.ts:128 `text.length < 200`, scaled.
minContent == 2
\* route.ts:300 `maxPages = 15` (main passes 15, route.ts:386), scaled.
crawlMaxPages == 3
\* route.ts:395 `raw.length < 20`, scaled.
minRaw == 2
\* route.ts:259 and 400 `chunk(raw, 800, 150)`: window and overlap, scaled.
chunkSize == 2
chunkOverlap == 1
\* Longest extracted page text of the model.
MaxText == 3
\* part_000:155 and 204 `ragSearch(tenant.id, message, 4)`, `.slice(0, 4)`, scaled.
topK == 2
\* Most matches the vector search of the model returns.
MaxMatches == 3
\* Longest text and widest window of a direct call of chunk.
MaxChunkText == 5
MaxSize == 3
\* Most messages a chat widget of the model shows.
MaxMessages == 5
\* part_000:24 `MIN_SIMILARITY = 0.20` and part_002:35 `MIN_SIMILARITY = 0.75`;
\* similarity scores are counted in hundredths.
MIN_SIMILARITY_soft == 20
MIN_SIMILARITY_hard == 75

(***************************************************************************)
(* URLs.  A URL is its scheme, host, path and fragment; the origin is      *)
(* scheme and host (the port is the scheme's default).                     *)
(***************************************************************************)
U(s, h, p, f) == [scheme |-> s, host |-> h, path |-> p, frag |-> f]

NoUrl == U("", "", "", "")

origin(u) == <<u.scheme, u.host>>

\* The url field of an admin request: absent, an absolute URL, a URL typed
\* without its scheme, or text that is no URL even with https:// before it.
TargetUrls ==
    { [kind |-> "none", url |-> NoUrl], [kind |-> "bad", url |-> NoUrl],
      [kind |-> "bare", url |-> U("", "a", "/", "")],
      [kind |-> "abs", url |-> U("https", "a", "/", "")],
      [kind |-> "abs", url |-> U("https", "a", "/", "f")] }

\* route.ts normalizeUrl (admin): new URL(input).toString(), or with https://
\* put before it; the second new URL throws when that is no URL either.
\* The result says whether it threw.
normalizeUrl(input) ==
    CASE input.kind = "abs" -> [throws |-> FALSE, url |-> input.url]
      [] input.kind = "bare" ->
           [throws |-> FALSE, url |-> [input.url EXCEPT !.scheme = "https"]]
      [] OTHER -> [throws |-> TRUE, url |-> NoUrl]

(***************************************************************************)
(* Page markup, as far as the crawlers read it: the href attributes of its *)
(* anchors in document order.  An href is a link (given resolved against   *)
(* the page), a "#..." anchor, a mailto:/tel: address or a malformed href. *)
(***************************************************************************)
Link(u) == [kind |-> "link", url |-> u, frag |-> ""]

CoreHrefs ==
    << Link(U("https", "a", "/a", "")), Link(U("https", "a", "/a", "f")),
       Link(U("https", "a", "/b", "")), Link(U("https", "a", "/", "")) >>

RECURSIVE Pick(_, _, _)
\* The hrefs of `master` whose index is in S, in order, from index i on.
Pick(master, S, i) ==
    IF i > Len(master) THEN << >>
    ELSE (IF i \in S THEN << master[i] >> ELSE << >>) \o Pick(master, S, i + 1)

OddPages ==
    { << Link(U("https", "a", "/a", "")), [kind |-> "mailto", url |-> NoUrl, frag |-> ""],
         Link(U("https", "a", "/a", "")), [kind |-> "bad", url |-> NoUrl, frag |-> ""],
         [kind |-> "anchor", url |-> NoUrl, frag |-> "f"], Link(U("https", "a", "/b", "")) >>,
      << Link(U("http", "a", "/a", "")), Link(U("https", "b", "/", "")),
         Link(U("https", "a", "/b", "")) >>,
      << Link(U("https", "b", "/a", "f")), Link(U("http", "a", "/", "")) >> }

Htmls == { Pick(CoreHrefs, S, 1) : S \in SUBSET (1 .. Len(CoreHrefs)) } \cup OddPages

RECURSIVE Dedup(_, _)
\* Array.from(new Set(xs)): the first occurrence of each element, in order.
Dedup(xs, seen) ==
    IF xs = << >> THEN << >>
    ELSE IF Head(xs) \in seen THEN Dedup(Tail(xs), seen)
    ELSE << Head(xs) >> \o Dedup(Tail(xs), seen \cup {Head(xs)})

RECURSIVE SameOriginLinks(_, _)
\* route.ts extractLinks, its loop: anchors and mailto:/tel: are skipped, a
\* malformed href is caught, another origin is dropped; url.toString() keeps
\* the fragment.
SameOriginLinks(html, baseUrl) ==
    IF html = << >> THEN << >>
    ELSE LET h == Head(html)
             rest == SameOriginLinks(Tail(html), baseUrl)
         IN  IF h.kind = "link" /\ origin(h.url) = origin(baseUrl)
             THEN << h.url >> \o rest
             ELSE rest

extractLinks(html, baseUrl) == Dedup(SameOriginLinks(html, baseUrl), {})

\* xs.slice(0, n)
Slice(xs, n) == SubSeq(xs, 1, IF Len(xs) < n THEN Len(xs) ELSE n)

RECURSIVE Enqueue(_, _, _)
\* route.ts:187-189: `for (const l of links) if (!visited.has(l)) queue.push(l)`.
Enqueue(queue, links, visited) ==
    IF links = << >> THEN queue
    ELSE Enqueue(IF Head(links) \in visited THEN queue ELSE Append(queue, Head(links)),
                 Tail(links), visited)

\* route.ts:134-138: the title of a page, from its URL.
Title(current, base) ==
    IF current = base THEN "Website"
    ELSE IF current.path = "/" THEN "/" ELSE current.path

(***************************************************************************)
(* Page text, as far as the script reads it: its characters, a letter or   *)
(* white space.  extractTextFromUrl trims what it returns.                 *)
(***************************************************************************)
Chars == {"x", " "}

Texts ==
    { t \in UNION { [1 .. n -> Chars] : n \in 0 .. MaxText } :
        Len(t) > 0 => (t[1] = "x" /\ t[Len(t)] = "x") }

Min(a, b) == IF a < b THEN a ELSE b

RECURSIVE CollapseWs(_)
\* s.replace(/\s+/g, " ")
CollapseWs(s) ==
    IF Len(s) < 2 THEN s
    ELSE IF s[1] = " " /\ s[2] = " " THEN CollapseWs(Tail(s))
    ELSE << s[1] >> \o CollapseWs(Tail(s))

RECURSIVE TrimLeft(_)
TrimLeft(s) == IF s # << >> /\ s[1] = " " THEN TrimLeft(Tail(s)) ELSE s

RECURSIVE TrimRight(_)
TrimRight(s) ==
    IF s # << >> /\ s[Len(s)] = " " THEN TrimRight(SubSeq(s, 1, Len(s) - 1)) ELSE s

\* s.trim()
Trim(s) == TrimLeft(TrimRight(s))

RECURSIVE Windows_NoOverlap(_, _, _, _)
\* Windows that start `size` apart: the overlap is not taken off the step.
Windows_NoOverlap(text, size, overlap, i) ==
    IF i > Len(text) THEN << >>
    ELSE << SubSeq(text, i, Min(i + size - 1, Len(text))) >>
         \o Windows_NoOverlap(text, size, overlap, i + size)

RECURSIVE Windows(_, _, _, _)
\* route.ts:263-266: text.slice(i, i + size) for i = 0, size - overlap, ...
\* (i counts from 1 here).
Windows(text, size, overlap, i) ==
    IF i > Len(text) THEN << >>
    ELSE << SubSeq(text, i, Min(i + size - 1, Len(text))) >>
         \o Windows(text, size, overlap, i + (size - overlap))

RECURSIVE MapTrim(_)
MapTrim(ws) ==
    IF ws = << >> THEN << >> ELSE << Trim(CollapseWs(Head(ws))) >> \o MapTrim(Tail(ws))

NonEmpty(s) == s # << >>

\* chunk without its .filter(Boolean).
chunk_NoFilter(text, size, overlap) == MapTrim(Windows(text, size, overlap, 1))

\* route.ts:259-271
chunk(text, size, overlap) ==
    SelectSeq(MapTrim(Windows(text, size, overlap, 1)), NonEmpty)

(***************************************************************************)
(* crawlSite's helpers (route.ts:276-298)                                  *)
(***************************************************************************)
\* route.ts:276-284: the URL without its fragment (null for text that is no
\* URL: crawlSite only passes it URLs).
crawlNormalizeUrl(u) == [u EXCEPT !.frag = ""]

\* route.ts:286-288
isSameHost(base, candidate) == base.host = candidate.host

\* route.ts:290-298, on the hrefs of the model.
isCrawlableLink(h) == h.kind # "mailto"

InSeq(x, s) == \E i \in 1 .. Len(s) : s[i] = x

RECURSIVE foundLinks(_, _, _)
\* route.ts:321-340: the crawlable hrefs, resolved against the page, without
\* fragment, on the start URL's host.
foundLinks(html, normalized, start) ==
    IF html = << >> THEN << >>
    ELSE LET h == Head(html)
             rest == foundLinks(Tail(html), normalized, start)
             x == crawlNormalizeUrl(IF h.kind = "anchor"
                                    THEN [normalized EXCEPT !.frag = h.frag]
                                    ELSE h.url)
         IN  IF isCrawlableLink(h) /\ h.kind # "bad" /\ isSameHost(start, x)
             THEN << x >> \o rest
             ELSE rest

RECURSIVE CrawlEnqueue(_, _, _, _)
\* route.ts:342-348
CrawlEnqueue(toVisit, links, visited, budget) ==
    IF links = << >> THEN toVisit
    ELSE LET link == Head(links) IN
         CrawlEnqueue(
             IF ~InSeq(link, visited) /\ ~InSeq(link, toVisit)
                /\ Len(visited) + Len(toVisit) < budget
             THEN Append(toVisit, link) ELSE toVisit,
             Tail(links), visited, budget)

(***************************************************************************)
(* The store.  tenants is fixed (provisioned out of band); a row of        *)
(* knowledge_items or embeddings carries its tenant_id, the page it came   *)
(* from and, as history, the run that inserted it (0: an earlier run).     *)
(***************************************************************************)
Tenants == {"t1", "t2"}

\* The slugs of the requests: absent, a tenant's, nobody's, and one that two
\* rows of tenants carry.
Slugs == {"", "t1", "zz", "dd"}

TenantRows(slug) ==
    CASE slug \in Tenants -> {slug}
      [] slug = "dd" -> {"d1", "d2"}
      [] OTHER -> {}

\* .single(): an error unless the query came through and found one row.
single(rows, failed) ==
    IF failed \/ Cardinality(rows) # 1 THEN [error |-> TRUE, data |-> ""]
    ELSE [error |-> FALSE, data |-> CHOOSE t \in rows : TRUE]

Row(id, tenant, run, url) == [id |-> id, tenant |-> tenant, run |-> run, url |-> url]

\* The rows a store may hold from earlier runs.
OldRows == { Row(-1, "t1", 0, U("https", "a", "/old", "")),
             Row(-2, "t2", 0, U("https", "c", "/", "")) }

VARIABLES
    world,      \* "any", or "steady": the site is fixed and every call succeeds
    kiRows,     \* table knowledge_items
    embRows,    \* table embeddings
    nextId,     \* the next row id the store gives
    adm,        \* the admin ingestion requests, by request number
    cli,        \* the run of the ingest script
    chat,       \* the chat request
    call,       \* a direct call of chunk: its arguments and what it returned
    widget      \* a chat widget in the browser

vars == << world, kiRows, embRows, nextId, adm, cli, chat, call, widget >>

AdminReqs == {1, 2}

\* What an external call may answer: anything, or in a steady world `good`.
Try(all, good) == IF world = "steady" THEN good ELSE all

\* The page behind a URL in a steady world.
SteadyHtml(u) ==
    IF u.path = "/"
    THEN << Link(U("https", "a", "/a", "")), Link(U("https", "a", "/b", "")) >>
    ELSE << Link(U("https", "a", "/", "")) >>

SteadyText == [i \in 1 .. MaxText |-> "x"]

TenantCount(rows, tenant) == Cardinality({ x \in rows : x.tenant = tenant })

AdminBodies ==
    { [json |-> "null", password |-> "none", slug |-> "", url |-> [kind |-> "none", url |-> NoUrl]] }
    \cup { [json |-> "object", password |-> pw, slug |-> s, url |-> u] :
             pw \in {"none", "bad", "good"}, s \in Slugs, u \in TargetUrls }

NoResp == [status |-> 0, ok |-> FALSE, pages |-> 0, error |-> ""]

\* A request before its first step.  seedHtml and firstCount are history:
\* the start page as it was read, and the tenant's knowledge items after the
\* first of two runs.
AdmIdle(body, run) ==
    [ pc |-> "start", body |-> body, run |-> run, tenant |-> "", base |-> NoUrl,
      visited |-> {}, queue |-> << >>, current |-> NoUrl, html |-> << >>,
      created |-> << >>, did |-> {}, resp |-> NoResp,
      seedHtml |-> << >>, firstCount |-> -1 ]

AdmOff == [AdmIdle(CHOOSE b \in AdminBodies : b.json = "null", 0) EXCEPT !.pc = "off"]

Respond(r, status, ok) ==
    [r EXCEPT !.pc = "done",
              !.resp = [status |-> status, ok |-> ok, pages |-> Len(r.created), error |-> ""]]

\* An error response: {ok: false, error} with its status.
Fail(r, status, error) ==
    [r EXCEPT !.pc = "done",
              !.resp = [status |-> status, ok |-> FALSE, pages |-> 0, error |-> error]]

CliArgs == [slug : Slugs, url : TargetUrls]

CliIdle(args, run) ==
    [ pc |-> "start", args |-> args, run |-> run, tenant |-> "", start |-> NoUrl,
      toVisit |-> << >>, visited |-> << >>, current |-> NoUrl, urls |-> << >>,
      chunks |-> << >>, code |-> -1, firstCount |-> -1 ]

CliOff == [CliIdle([slug |-> "", url |-> [kind |-> "none", url |-> NoUrl]], 0) EXCEPT !.pc = "off"]

Exit(r, code) == [r EXCEPT !.pc = "exit", !.code = code]

(***************************************************************************)
(* The chat routes.  Three variants of the route are in the repository:    *)
(* "soft" (part_000: threshold 0.20, best-available fallback), "plain"     *)
(* (part_001: no threshold, no no-knowledge branch) and "hard" (part_002:  *)
(* threshold 0.75).                                                        *)
(***************************************************************************)
Routes == {"soft", "plain", "hard"}

\* What match_embeddings may answer for one row: content that is text, empty
\* or white space only, and a similarity that is a number (in hundredths) or
\* not one.
MatchKinds ==
    { [content |-> "c", num |-> TRUE, sim |-> 10], [content |-> "c", num |-> TRUE, sim |-> 30],
      [content |-> "c", num |-> TRUE, sim |-> 80], [content |-> "c", num |-> FALSE, sim |-> 0],
      [content |-> "", num |-> TRUE, sim |-> 80], [content |-> " ", num |-> TRUE, sim |-> 30] }

\* A result list; a row's id is its place in the list.
MatchLists ==
    { [i \in 1 .. Len(f) |->
          [id |-> i, content |-> f[i].content, num |-> f[i].num, sim |-> f[i].sim]] :
        f \in UNION { [1 .. k -> MatchKinds] : k \in 0 .. MaxMatches } }

\* part_000:166-171: `typeof m.similarity === "number" && !!m.content &&
\* m.content.trim().length > 0`
isScored(m) == m.num /\ m.content # "" /\ m.content # " "

aboveSoft(m) == m.sim >= MIN_SIMILARITY_soft

\* part_002:186-188
isRelevant(m) == m.num /\ m.sim >= MIN_SIMILARITY_hard

RECURSIVE InsertDesc(_, _)
\* m put into a list sorted by descending similarity, after its equals.
InsertDesc(sorted, m) ==
    IF sorted = << >> THEN << m >>
    ELSE IF Head(sorted).sim >= m.sim THEN << Head(sorted) >> \o InsertDesc(Tail(sorted), m)
    ELSE << m >> \o sorted

RECURSIVE SortDesc(_)
\* xs.sort((a, b) => b.similarity - a.similarity): stable.
SortDesc(xs) ==
    IF xs = << >> THEN << >>
    ELSE InsertDesc(SortDesc(SubSeq(xs, 1, Len(xs) - 1)), xs[Len(xs)])

\* part_000:198-204
top(scored) ==
    LET above == SortDesc(SelectSeq(scored, aboveSoft))
    IN  Slice(SortDesc(IF Len(above) > 0 THEN above ELSE scored), topK)

\* Texts of a response: a settings message, or what the generation service
\* wrote.
\* part_000:56-60: the defaults of getTenantSettings.
DefaultSettings ==
    [ welcome_message |-> << "welcome", "Wie kann ich Ihnen helfen?" >>,
      fallback_message |->
          << "fallback", "Leider habe ich hierzu noch keine Informationen hinterlegt." >> ]

SettingsOf(tenant) ==
    [welcome_message |-> << "welcome", tenant >>, fallback_message |-> << "fallback", tenant >>]

ChatBodies ==
    [json : {"null", "object"}, message : {"", "q"}, slug : Slugs, debug : BOOLEAN]

NoChatResp ==
    [ status |-> 0, kind |-> "none", text |-> << >>, welcome_message |-> << >>,
      from_kb |-> "absent", matches |-> << >>, settings |-> "absent", threshold |-> -1 ]

\* A request before its first step.  matches, ragFailed, context, failed and
\* completion are kept as history of what the search returned, what went to
\* the generation, which calls failed and what the generation call gave.
ChatIdle(route, body) ==
    [ pc |-> "start", route |-> route, body |-> body, slug |-> "", tenant |-> "",
      settings |-> DefaultSettings, matches |-> << >>, ragFailed |-> FALSE,
      context |-> << >>, calls |-> {}, failed |-> {}, completion |-> "none",
      resp |-> NoChatResp ]

ChatOff == [ChatIdle("soft", [json |-> "null", message |-> "", slug |-> "", debug |-> FALSE])
               EXCEPT !.pc = "off"]

ChatError(r, status) ==
    [r EXCEPT !.pc = "done", !.resp = [NoChatResp EXCEPT !.status = status, !.kind = "error"]]

ChatAnswer(r, text, from_kb) ==
    [r EXCEPT !.pc = "done",
              !.resp = [NoChatResp EXCEPT !.status = 200, !.kind = "answer", !.text = text,
                                          !.welcome_message = r.settings.welcome_message,
                                          !.from_kb = from_kb]]

\* The debug payload; threshold is -1 when the payload has no such field.
ChatDebug(r, shown, threshold) ==
    [r EXCEPT !.pc = "done",
              !.resp = [NoChatResp EXCEPT !.status = 200, !.kind = "debug", !.matches = shown,
                                          !.settings = r.settings, !.threshold = threshold]]

(***************************************************************************)
(* A direct call of chunk, and the chat widgets of the pages.              *)
(***************************************************************************)
\* Every text over the two characters, trimmed or not.
AllTexts == UNION { [1 .. n -> Chars] : n \in 0 .. MaxChunkText }

CallReady(text, size, overlap) ==
    [pc |-> "ready", text |-> text, size |-> size, overlap |-> overlap, out |-> << >>]

CallOff == [CallReady(<< >>, 1, 0) EXCEPT !.pc = "off"]

\* The pages with a chat widget: demo/[slug]/page.tsx, embed/[slug]/page.tsx
\* and the two demo pages kept in lib/db.ts (lines 27-343 and 344-619).
WidgetKinds == {"demo", "embed", "demoA", "demoB"}

\* A message of the list: its role and text; `from` is history, the kind of
\* response the text was made from ("none": no response was involved).
Message(role, text, from) == [role |-> role, text |-> text, from |-> from]

Fixed(text) == << "fixed", text >>

\* The welcome text of a page, by its first sentence.
welcomeText(kind) ==
    IF kind = "embed"
    THEN Fixed("Hallo! Ich bin der digitale Assistent.")
    ELSE Fixed("Hallo! Ich bin der digitale Assistent dieser Demo.")

configText(kind) ==
    IF kind = "demoA"
    THEN Fixed("Es liegt ein Konfigurationsfehler vor: kein Unternehmens-Slug gesetzt.")
    ELSE Fixed("Konfigurationsfehler: kein Tenant-Slug gesetzt.")

errorText(kind) ==
    CASE kind = "embed" ->
           Fixed("Technischer Fehler: Die Anfrage konnte nicht verarbeitet werden.")
      [] kind = "demoA" ->
           Fixed("Es ist ein Fehler aufgetreten. Bitte versuchen Sie es erneut oder wenden Sie sich direkt an das Unternehmen.")
      [] OTHER ->
           Fixed("Es ist ein Fehler aufgetreten. Bitte versuchen Sie es erneut oder kontaktieren Sie das Team direkt.")

noAnswerText(kind) ==
    IF kind = "embed"
    THEN Fixed("Entschuldigung, ich konnte gerade keine Antwort erzeugen.")
    ELSE Fixed("Keine Antwort.")

\* The list a page shows once mounted: the demo page sets its welcome
\* message in an effect, the embed page starts with it, the pages of
\* lib/db.ts start empty.
InitialMessages(kind) ==
    IF kind \in {"demo", "embed"}
    THEN << Message("assistant", welcomeText(kind), "none") >> ELSE << >>

\* What the user types, and the text a suggestion button passes to send.
WInputs == { << >>, << " " >>, << "x" >>, << " ", "x" >> }

NoOverride == [given |-> FALSE, text |-> << >>]

WOverrides(kind) ==
    IF kind = "demoA" THEN {NoOverride}
    ELSE {NoOverride, [given |-> TRUE, text |-> << "x", "x" >>]}

\* What the fetch of /api/chat may settle with: a network failure, or a
\* response with a status and a body that is no JSON, JSON null, or an
\* object with or without text (null, a number, "", a string) and error.
WTextVals == {"absent", "null", "num", "empty", "str"}

WBodies ==
    { [json |-> j, text |-> "absent", error |-> "absent"] : j \in {"invalid", "null"} }
    \cup [json : {"object"}, text : WTextVals, error : {"absent", "E"}]

WResponses ==
    { [failed |-> TRUE, status |-> 0, body |-> CHOOSE b \in WBodies : b.json = "invalid"] }
    \cup [failed : {FALSE}, status : {200, 400, 500}, body : WBodies]

\* res.ok
ok(res) == res.status >= 200 /\ res.status <= 299

WidgetIdle(kind, slug) ==
    [ kind |-> kind, slug |-> slug, input |-> << >>, isSending |-> FALSE,
      messages |-> InitialMessages(kind), pending |-> << >> ]

WidgetOff == [WidgetIdle("off", "") EXCEPT !.messages = << >>]

InitStore ==
    /\ \E old \in SUBSET OldRows : kiRows = old /\ embRows = old
    /\ nextId = 1

InitAdmin ==
    /\ InitStore
    /\ \E b \in AdminBodies : adm = [p \in AdminReqs |-> IF p = 1 THEN AdmIdle(b, 1) ELSE AdmOff]
    /\ cli = CliOff
    /\ chat = ChatOff
    /\ call = CallOff /\ widget = WidgetOff

InitCli ==
    /\ InitStore
    /\ adm = [p \in AdminReqs |-> AdmOff]
    /\ \E a \in CliArgs : cli = CliIdle(a, 1)
    /\ chat = ChatOff
    /\ call = CallOff /\ widget = WidgetOff

InitChat ==
    /\ kiRows = {} /\ embRows = {} /\ nextId = 1
    /\ adm = [p \in AdminReqs |-> AdmOff]
    /\ cli = CliOff
    /\ \E route \in Routes, b \in ChatBodies : chat = ChatIdle(route, b)
    /\ call = CallOff /\ widget = WidgetOff

\* One program runs in a behaviour: an admin request, the script, or a chat
\* request.
Init ==
    /\ world \in {"any", "steady"}
    /\ (InitAdmin \/ InitCli \/ InitChat)

----------------------------------------------------------------------------
(***************************************************************************)
(* POST /api/admin/scrape (route.ts:72-206)                                *)
(***************************************************************************)

\* route.ts:74-91: the body is read, then the password and the fields are
\* checked.  `body.password` of a JSON null throws into the outer catch.
AdmAuth(p) ==
    LET r == adm[p] IN
    /\ r.pc = "start"
    /\ adm' = [adm EXCEPT ![p] =
          IF r.body.json = "null" THEN Fail(r, 500, "TypeError")
          ELSE IF r.body.password # "good" THEN Fail(r, 401, "Unauthorized")
          ELSE IF r.body.slug = "" \/ r.body.url.kind = "none"
          THEN Fail(r, 400, "slug and url are required")
          ELSE [r EXCEPT !.pc = "tenant"]]
    /\ UNCHANGED << call, widget, world, kiRows, embRows, nextId, cli, chat >>

\* AdmTenant with a getTenantBySlug that returns what it got and never throws.
AdmTenant_NoThrow(p) ==
    LET r == adm[p] IN
    /\ r.pc = "tenant"
    /\ \E failed \in Try(BOOLEAN, {FALSE}) :
         LET r1 == [r EXCEPT !.did = @ \cup {"lookup"}]
             t == single(TenantRows(r.body.slug), failed)
             n == normalizeUrl(r.body.url)
         IN  adm' = [adm EXCEPT ![p] =
                 IF n.throws THEN Fail([r1 EXCEPT !.tenant = t.data], 500, "Invalid URL")
                 ELSE [r1 EXCEPT !.pc = "delEmb", !.tenant = t.data, !.base = n.url]]
    /\ UNCHANGED << call, widget, world, kiRows, embRows, nextId, cli, chat >>

\* route.ts:93-95 with getTenantBySlug (57-70), which throws "Tenant not
\* found"; then normalizeUrl throws on text that is no URL; both end in the
\* outer catch (500, with the error's message).
AdmTenant(p) ==
    LET r == adm[p] IN
    /\ r.pc = "tenant"
    /\ \E failed \in Try(BOOLEAN, {FALSE}) :
         LET r1 == [r EXCEPT !.did = @ \cup {"lookup"}]
             t == single(TenantRows(r.body.slug), failed)
             n == normalizeUrl(r.body.url)
         IN  adm' = [adm EXCEPT ![p] =
                 IF t.error \/ t.data = "" THEN Fail(r1, 500, "Tenant not found")
                 ELSE IF n.throws THEN Fail([r1 EXCEPT !.tenant = t.data], 500, "Invalid URL")
                 ELSE [r1 EXCEPT !.pc = "delEmb", !.tenant = t.data, !.base = n.url]]
    /\ UNCHANGED << call, widget, world, kiRows, embRows, nextId, cli, chat >>

\* DeleteRows without the .eq("tenant_id", tenant.id) filter.
DeleteRows_AllTenants(rows, tenant) == {}

\* A delete's effect on a table when the store carries it out.
DeleteRows(rows, tenant) == { x \in rows : x.tenant # tenant }

\* The steps of a run from its first delete to its last insert.
AdmBusy(p) ==
    adm[p].pc \in {"delKi", "loop", "fetch", "body", "insKi", "embed", "insEmb"}

\* AdmDeleteEmb behind a lock per tenant: a run starts to delete only when
\* no other run for its tenant is between its first delete and its response.
AdmDeleteEmb_Locked(p) ==
    LET r == adm[p] IN
    /\ r.pc = "delEmb"
    /\ \A q \in AdminReqs \ {p} : ~(AdmBusy(q) /\ adm[q].tenant = r.tenant)
    /\ \E done \in Try(BOOLEAN, {TRUE}) :
         embRows' = IF done THEN DeleteRows(embRows, r.tenant) ELSE embRows
    /\ adm' = [adm EXCEPT ![p] = [r EXCEPT !.pc = "delKi", !.did = @ \cup {"delete"}]]
    /\ UNCHANGED << call, widget, world, kiRows, nextId, cli, chat >>

\* route.ts:98: the delete's result is awaited and not looked at, so a
\* delete the store reports as failed leaves the rows and the run goes on.
AdmDeleteEmb(p) ==
    LET r == adm[p] IN
    /\ r.pc = "delEmb"
    /\ \E done \in Try(BOOLEAN, {TRUE}) :
         embRows' = IF done THEN DeleteRows(embRows, r.tenant) ELSE embRows
    /\ adm' = [adm EXCEPT ![p] = [r EXCEPT !.pc = "delKi", !.did = @ \cup {"delete"}]]
    /\ UNCHANGED << call, widget, world, kiRows, nextId, cli, chat >>

\* route.ts:99-105: the second delete, then the crawl's queue and visited set.
AdmDeleteKi(p) ==
    LET r == adm[p] IN
    /\ r.pc = "delKi"
    /\ \E done \in Try(BOOLEAN, {TRUE}) :
         kiRows' = IF done THEN DeleteRows(kiRows, r.tenant) ELSE kiRows
    /\ adm' = [adm EXCEPT ![p] =
          [r EXCEPT !.pc = "loop", !.visited = {}, !.queue = << r.base >>,
                    !.created = << >>]]
    /\ UNCHANGED << call, widget, world, embRows, nextId, cli, chat >>

\* AdmLoop with the page budget left out of the loop's test.
AdmLoop_NoBudget(p) ==
    LET r == adm[p] IN
    /\ r.pc = "loop"
    /\ adm' = [adm EXCEPT ![p] =
          IF ~(Len(r.queue) > 0)
          THEN Respond(r, 200, TRUE)
          ELSE LET current == Head(r.queue) IN
               IF current \in r.visited
               THEN [r EXCEPT !.queue = Tail(@)]
               ELSE [r EXCEPT !.queue = Tail(@), !.visited = @ \cup {current},
                              !.current = current, !.pc = "fetch"]]
    /\ UNCHANGED << call, widget, world, kiRows, embRows, nextId, cli, chat >>

\* route.ts:107-110 and 193-198: the loop's test, the pop, the visited check;
\* when the loop ends, the ok response.
AdmLoop(p) ==
    LET r == adm[p] IN
    /\ r.pc = "loop"
    /\ adm' = [adm EXCEPT ![p] =
          IF ~(Len(r.queue) > 0 /\ Cardinality(r.visited) < maxPages)
          THEN Respond(r, 200, TRUE)
          ELSE LET current == Head(r.queue) IN
               IF current \in r.visited
               THEN [r EXCEPT !.queue = Tail(@)]
               ELSE [r EXCEPT !.queue = Tail(@), !.visited = @ \cup {current},
                              !.current = current, !.pc = "fetch"]]
    /\ UNCHANGED << call, widget, world, kiRows, embRows, nextId, cli, chat >>

\* route.ts:112-123: fetch throws or answers a non-success status: next page.
AdmFetch(p) ==
    LET r == adm[p] IN
    /\ r.pc = "fetch"
    /\ \E res \in Try({"throws", "notOk", "ok"}, {"ok"}) :
         adm' = [adm EXCEPT ![p] =
             [r EXCEPT !.did = @ \cup {"fetch"},
                       !.pc = IF res = "ok" THEN "body" ELSE "loop"]]
    /\ UNCHANGED << call, widget, world, kiRows, embRows, nextId, cli, chat >>

\* route.ts:125-131: res.text() is outside every inner try, so a body that
\* cannot be read ends the run in the outer catch; a short text is skipped.
AdmBody(p) ==
    LET r == adm[p] IN
    /\ r.pc = "body"
    /\ \/ /\ world = "any"
          /\ adm' = [adm EXCEPT ![p] = Fail(r, 500, "body")]
       \/ \E html \in Try(Htmls, {SteadyHtml(r.current)}),
             len \in Try(0 .. MaxText, {MaxText}) :
            adm' = [adm EXCEPT ![p] =
                IF len < minContent THEN [r EXCEPT !.pc = "loop"]
                ELSE [r EXCEPT !.pc = "insKi", !.html = html,
                               !.seedHtml = IF r.current = r.base THEN html ELSE @]]
    /\ UNCHANGED << call, widget, world, kiRows, embRows, nextId, cli, chat >>

\* route.ts:141-155: the knowledge item; on kiError the page is left at once
\* (`continue`), before the links of lines 183-190 are looked at.
AdmInsertKi(p) ==
    LET r == adm[p] IN
    /\ r.pc = "insKi"
    /\ \/ /\ world = "any"
          /\ adm' = [adm EXCEPT ![p] =
                [r EXCEPT !.pc = "loop", !.html = << >>, !.did = @ \cup {"insert"}]]
          /\ UNCHANGED << kiRows, nextId >>
       \/ /\ kiRows' = kiRows \cup {Row(nextId, r.tenant, r.run, r.current)}
          /\ nextId' = nextId + 1
          /\ adm' = [adm EXCEPT ![p] = [r EXCEPT !.pc = "embed", !.did = @ \cup {"insert"}]]
    /\ UNCHANGED << call, widget, world, embRows, cli, chat >>

\* route.ts:181-190: the page is recorded and, on the start page, its links
\* are queued.
AfterPage(r) ==
    [r EXCEPT !.pc = "loop", !.html = << >>,
              !.created = Append(@, [url |-> r.current, title |-> Title(r.current, r.base)]),
              !.queue = IF r.current = r.base
                        THEN Enqueue(@, Slice(extractLinks(r.html, r.base), linkCap), r.visited)
                        ELSE @]

\* route.ts:158-164 and 177-179: the embedding call; when it throws the
\* error is logged and the page is recorded all the same.
AdmEmbed(p) ==
    LET r == adm[p]
        r1 == [r EXCEPT !.did = @ \cup {"embed"}]
    IN
    /\ r.pc = "embed"
    /\ \E emb \in Try({"throws", "ok"}, {"ok"}) :
         adm' = [adm EXCEPT ![p] =
             IF emb = "ok" THEN [r1 EXCEPT !.pc = "insEmb"] ELSE AfterPage(r1)]
    /\ UNCHANGED << call, widget, world, kiRows, embRows, nextId, cli, chat >>

\* route.ts:166-176: the embedding row; embError is logged only.
AdmInsertEmb(p) ==
    LET r == adm[p] IN
    /\ r.pc = "insEmb"
    /\ \/ /\ world = "any"
          /\ UNCHANGED << embRows, nextId >>
       \/ /\ embRows' = embRows \cup {Row(nextId, r.tenant, r.run, r.current)}
          /\ nextId' = nextId + 1
    /\ adm' = [adm EXCEPT ![p] = AfterPage(r)]
    /\ UNCHANGED << call, widget, world, kiRows, cli, chat >>

\* The same request sent again after its ok response (a steady world only:
\* the re-run of an unchanged site).
AdmRerun(p) ==
    LET r == adm[p] IN
    /\ world = "steady"
    /\ r.pc = "done" /\ r.resp.ok /\ r.run = 1
    /\ adm' = [adm EXCEPT ![p] =
          [AdmIdle(r.body, 2) EXCEPT !.firstCount = TenantCount(kiRows, r.tenant)]]
    /\ UNCHANGED << call, widget, world, kiRows, embRows, nextId, cli, chat >>

\* One step of the handler for request p, from one await to the next.
AdmRunStep(p) ==
    \/ AdmAuth(p)
    \/ AdmTenant(p)
    \/ AdmDeleteEmb(p)
    \/ AdmDeleteKi(p)
    \/ AdmLoop(p)
    \/ AdmFetch(p)
    \/ AdmBody(p)
    \/ AdmInsertKi(p)
    \/ AdmEmbed(p)
    \/ AdmInsertEmb(p)

AdminStep(p) ==
    \/ AdmRunStep(p)
    \/ AdmRerun(p)

----------------------------------------------------------------------------
(***************************************************************************)
(* scripts/ingest.ts: crawlSite and main (route.ts:300-441)                *)
(***************************************************************************)

\* route.ts:363-369: both arguments are needed.
CliStart ==
    /\ cli.pc = "start"
    /\ cli' = IF cli.args.slug = "" \/ cli.args.url.kind = "none"
              THEN Exit(cli, 1) ELSE [cli EXCEPT !.pc = "tenant"]
    /\ UNCHANGED << call, widget, world, kiRows, embRows, nextId, adm, chat >>

\* route.ts:374-386 and 301-303: the tenant, then crawlSite's first lines;
\* `new URL(startUrl)` throws on text that is no absolute URL, which main's
\* catch turns into exit code 1.
CliTenant ==
    /\ cli.pc = "tenant"
    /\ \E failed \in Try(BOOLEAN, {FALSE}) :
         LET t == single(TenantRows(cli.args.slug), failed) IN
         cli' = IF t.error \/ t.data = "" \/ cli.args.url.kind # "abs"
                THEN Exit(cli, 1)
                ELSE [cli EXCEPT !.pc = "crawl", !.tenant = t.data,
                                 !.start = cli.args.url.url,
                                 !.toVisit = << cli.args.url.url >>, !.visited = << >>]
    /\ UNCHANGED << call, widget, world, kiRows, embRows, nextId, adm, chat >>

\* CliCrawlLoop without `visited.add(normalized)`.
CliCrawlLoop_NoVisitedAdd ==
    /\ cli.pc = "crawl"
    /\ cli' =
         IF ~(Len(cli.toVisit) > 0 /\ Len(cli.visited) < crawlMaxPages)
         THEN IF Len(cli.visited) = 0 THEN Exit(cli, 0)
              ELSE [cli EXCEPT !.pc = "page", !.urls = cli.visited]
         ELSE LET normalized == crawlNormalizeUrl(Head(cli.toVisit)) IN
              IF InSeq(normalized, cli.visited)
              THEN [cli EXCEPT !.toVisit = Tail(@)]
              ELSE [cli EXCEPT !.toVisit = Tail(@), !.current = normalized, !.pc = "cfetch"]
    /\ UNCHANGED << call, widget, world, kiRows, embRows, nextId, adm, chat >>

\* route.ts:305-310 and 355-390: the loop's test, the pop, the visited
\* check; when the loop ends main goes on with the visited URLs.
CliCrawlLoop ==
    /\ cli.pc = "crawl"
    /\ cli' =
         IF ~(Len(cli.toVisit) > 0 /\ Len(cli.visited) < crawlMaxPages)
         THEN IF Len(cli.visited) = 0 THEN Exit(cli, 0)
              ELSE [cli EXCEPT !.pc = "page", !.urls = cli.visited]
         ELSE LET normalized == crawlNormalizeUrl(Head(cli.toVisit)) IN
              IF InSeq(normalized, cli.visited)
              THEN [cli EXCEPT !.toVisit = Tail(@)]
              ELSE [cli EXCEPT !.toVisit = Tail(@), !.visited = Append(@, normalized),
                               !.current = normalized, !.pc = "cfetch"]
    /\ UNCHANGED << call, widget, world, kiRows, embRows, nextId, adm, chat >>

\* route.ts:313-315 and 349-352
CliCrawlFetch ==
    /\ cli.pc = "cfetch"
    /\ \E res \in Try({"throws", "notOk", "ok"}, {"ok"}) :
         cli' = [cli EXCEPT !.pc = IF res = "ok" THEN "cbody" ELSE "crawl"]
    /\ UNCHANGED << call, widget, world, kiRows, embRows, nextId, adm, chat >>

\* route.ts:317-352: the body is read inside the try; the links found are
\* queued while the budget lasts.
CliCrawlBody ==
    /\ cli.pc = "cbody"
    /\ \/ /\ world = "any"
          /\ cli' = [cli EXCEPT !.pc = "crawl"]
       \/ \E html \in Try(Htmls, {SteadyHtml(cli.current)}) :
            cli' = [cli EXCEPT !.pc = "crawl",
                       !.toVisit = CrawlEnqueue(@, foundLinks(html, cli.current, cli.start),
                                                cli.visited, crawlMaxPages)]
    /\ UNCHANGED << call, widget, world, kiRows, embRows, nextId, adm, chat >>

\* route.ts:393-394 and 233-240: the next URL of the for loop and its fetch
\* in extractTextFromUrl, which catches nothing.
CliPage ==
    /\ cli.pc = "page"
    /\ IF cli.urls = << >> THEN cli' = Exit(cli, 0)
       ELSE \E res \in Try({"throws", "notOk", "ok"}, {"ok"}) :
              cli' = CASE res = "throws" -> Exit(cli, 1)
                       [] res = "notOk" -> [cli EXCEPT !.urls = Tail(@)]
                       [] OTHER -> [cli EXCEPT !.pc = "ptext"]
    /\ UNCHANGED << call, widget, world, kiRows, embRows, nextId, adm, chat >>

\* route.ts:242-253 and 395-401: the text, the length check, the chunks.
CliPageText ==
    /\ cli.pc = "ptext"
    /\ \/ /\ world = "any"
          /\ cli' = Exit(cli, 1)
       \/ \E raw \in Try(Texts, {SteadyText}) :
            LET chunks == chunk(raw, chunkSize, chunkOverlap) IN
            cli' = IF Len(raw) < minRaw \/ chunks = << >>
                   THEN [cli EXCEPT !.urls = Tail(@), !.pc = "page"]
                   ELSE [cli EXCEPT !.chunks = chunks, !.pc = "cki"]
    /\ UNCHANGED << call, widget, world, kiRows, embRows, nextId, adm, chat >>

\* route.ts:405-416: `throw e1` ends the script.
CliInsertKi ==
    /\ cli.pc = "cki"
    /\ \/ /\ world = "any"
          /\ cli' = Exit(cli, 1)
          /\ UNCHANGED << kiRows, nextId >>
       \/ /\ kiRows' = kiRows \cup {Row(nextId, cli.tenant, cli.run, Head(cli.urls))}
          /\ nextId' = nextId + 1
          /\ cli' = [cli EXCEPT !.pc = "cembed"]
    /\ UNCHANGED << call, widget, world, embRows, adm, chat >>

\* route.ts:419 and 222-228: embed catches nothing.
CliEmbed ==
    /\ cli.pc = "cembed"
    /\ \E emb \in Try({"throws", "ok"}, {"ok"}) :
         cli' = IF emb = "ok" THEN [cli EXCEPT !.pc = "cemb"] ELSE Exit(cli, 1)
    /\ UNCHANGED << call, widget, world, kiRows, embRows, nextId, adm, chat >>

\* route.ts:420-432: `throw e2` ends the script; else the next chunk, or the
\* next URL.
CliInsertEmb ==
    /\ cli.pc = "cemb"
    /\ \/ /\ world = "any"
          /\ cli' = Exit(cli, 1)
          /\ UNCHANGED << embRows, nextId >>
       \/ /\ embRows' = embRows \cup {Row(nextId, cli.tenant, cli.run, Head(cli.urls))}
          /\ nextId' = nextId + 1
          /\ cli' = IF Len(cli.chunks) > 1
                    THEN [cli EXCEPT !.chunks = Tail(@), !.pc = "cki"]
                    ELSE [cli EXCEPT !.chunks = << >>, !.urls = Tail(@), !.pc = "page"]
    /\ UNCHANGED << call, widget, world, kiRows, adm, chat >>

\* The script run again with the same arguments after it ended normally (a
\* steady world only: the re-run of an unchanged site).
CliRerun ==
    /\ world = "steady"
    /\ cli.pc = "exit" /\ cli.code = 0 /\ cli.run = 1 /\ cli.tenant # ""
    /\ cli' = [CliIdle(cli.args, 2) EXCEPT !.firstCount = TenantCount(kiRows, cli.tenant)]
    /\ UNCHANGED << call, widget, world, kiRows, embRows, nextId, adm, chat >>

CliStep ==
    \/ CliStart
    \/ CliTenant
    \/ CliCrawlLoop
    \/ CliCrawlFetch
    \/ CliCrawlBody
    \/ CliPage
    \/ CliPageText
    \/ CliInsertKi
    \/ CliEmbed
    \/ CliInsertEmb
    \/ CliRerun

----------------------------------------------------------------------------
(***************************************************************************)
(* POST /api/chat (part_000:111-250, part_001:88-173, part_002:123-258)    *)
(***************************************************************************)

\* part_000:113-146: the body, the message and the slug.  `body.message` of
\* a JSON null throws into the outer catch; part_001:103-107 puts
\* "kunden-muster" for an absent slug and has no slug check.
ChatParse ==
    /\ chat.pc = "start"
    /\ chat' =
         IF chat.body.json = "null" THEN ChatError(chat, 500)
         ELSE IF chat.body.message = "" THEN ChatError(chat, 400)
         ELSE IF chat.route = "plain"
         THEN [chat EXCEPT !.pc = "tenant",
                           !.slug = IF chat.body.slug = "" THEN "kunden-muster" ELSE chat.body.slug]
         ELSE IF chat.body.slug = "" THEN ChatError(chat, 400)
         ELSE [chat EXCEPT !.pc = "tenant", !.slug = chat.body.slug]
    /\ UNCHANGED << call, widget, world, kiRows, embRows, nextId, adm, cli >>

\* ChatTenant with a getTenantBySlug that returns what it got and never throws.
ChatTenant_NoThrow ==
    /\ chat.pc = "tenant"
    /\ \E failed \in Try(BOOLEAN, {FALSE}) :
         LET t == single(TenantRows(chat.slug), failed) IN
         chat' = [chat EXCEPT !.calls = @ \cup {"tenant"}, !.pc = "settings",
                              !.tenant = t.data]
    /\ UNCHANGED << call, widget, world, kiRows, embRows, nextId, adm, cli >>

\* part_000:27-40 and 149: getTenantBySlug throws, the outer catch answers 500.
ChatTenant ==
    /\ chat.pc = "tenant"
    /\ \E failed \in Try(BOOLEAN, {FALSE}) :
         LET t == single(TenantRows(chat.slug), failed)
             r1 == [chat EXCEPT !.calls = @ \cup {"tenant"}]
         IN  chat' = IF t.error \/ t.data = "" THEN ChatError(r1, 500)
                     ELSE [r1 EXCEPT !.pc = "settings", !.tenant = t.data]
    /\ UNCHANGED << call, widget, world, kiRows, embRows, nextId, adm, cli >>

\* ChatSettings with a getTenantSettings that throws as getTenantBySlug does.
ChatSettings_Throws ==
    /\ chat.pc = "settings"
    /\ \E found \in BOOLEAN :
         LET r1 == [chat EXCEPT !.calls = @ \cup {"settings"}] IN
         chat' = IF found THEN [r1 EXCEPT !.pc = "embed", !.settings = SettingsOf(chat.tenant)]
                 ELSE ChatError([r1 EXCEPT !.failed = @ \cup {"settings"}], 500)
    /\ UNCHANGED << call, widget, world, kiRows, embRows, nextId, adm, cli >>

\* part_000:43-64 and 150: the tenant's settings, or the defaults.
ChatSettings ==
    /\ chat.pc = "settings"
    /\ \E found \in BOOLEAN :
         chat' = [chat EXCEPT !.pc = "embed", !.calls = @ \cup {"settings"},
                              !.failed = IF found THEN @ ELSE @ \cup {"settings"},
                              !.settings = IF found THEN SettingsOf(chat.tenant)
                                           ELSE DefaultSettings]
    /\ UNCHANGED << call, widget, world, kiRows, embRows, nextId, adm, cli >>

\* part_000:165-213 (soft), part_001:128-136 (plain), part_002:185-221
\* (hard): from the matches to the debug answer, the fallback answer or the
\* context of the generation call.
Rank(r, matches) ==
    LET r1 == [r EXCEPT !.matches = matches] IN
    CASE r.route = "soft" ->
           LET scored == SelectSeq(matches, isScored) IN
           IF r.body.debug THEN ChatDebug(r1, scored, MIN_SIMILARITY_soft)
           ELSE IF Len(scored) = 0 THEN ChatAnswer(r1, r.settings.fallback_message, "false")
           ELSE [r1 EXCEPT !.pc = "generate", !.context = top(scored)]
      [] r.route = "hard" ->
           LET relevantMatches == SelectSeq(matches, isRelevant) IN
           IF r.body.debug THEN ChatDebug(r1, matches, -1)
           ELSE IF Len(relevantMatches) = 0
           THEN ChatAnswer(r1, r.settings.fallback_message, "false")
           ELSE [r1 EXCEPT !.pc = "generate", !.context = relevantMatches]
      [] OTHER -> [r1 EXCEPT !.pc = "generate", !.context = matches]

\* ChatEmbed with ragSearch called outside the try of part_000:154-163.
ChatEmbed_NoCatch ==
    /\ chat.pc = "embed"
    /\ \E emb \in Try({"throws", "ok"}, {"ok"}) :
         LET r1 == [chat EXCEPT !.calls = @ \cup {"embed"}] IN
         chat' = IF emb = "ok" THEN [r1 EXCEPT !.pc = "search"]
                 ELSE ChatError([r1 EXCEPT !.ragFailed = TRUE, !.failed = @ \cup {"embed"}], 500)
    /\ UNCHANGED << call, widget, world, kiRows, embRows, nextId, adm, cli >>

\* part_000:72-77 and 153-163: the embedding of the question; when it throws,
\* ragSearch throws and the matches are [].
ChatEmbed ==
    /\ chat.pc = "embed"
    /\ \E emb \in Try({"throws", "ok"}, {"ok"}) :
         LET r1 == [chat EXCEPT !.calls = @ \cup {"embed"}] IN
         chat' = IF emb = "ok" THEN [r1 EXCEPT !.pc = "search"]
                 ELSE Rank([r1 EXCEPT !.ragFailed = TRUE, !.failed = @ \cup {"embed"}], << >>)
    /\ UNCHANGED << call, widget, world, kiRows, embRows, nextId, adm, cli >>

\* part_000:79-91 and 153-163: match_embeddings; on its error ragSearch
\* throws and the matches are [].
ChatSearch ==
    /\ chat.pc = "search"
    /\ LET r1 == [chat EXCEPT !.calls = @ \cup {"search"}] IN
       \/ /\ world = "any"
          /\ chat' = Rank([r1 EXCEPT !.ragFailed = TRUE, !.failed = @ \cup {"search"}], << >>)
       \/ \E data \in MatchLists : chat' = Rank(r1, data)
    /\ UNCHANGED << call, widget, world, kiRows, embRows, nextId, adm, cli >>

\* ChatGenerate with the generation call in a try of its own whose catch
\* answers the fallback message.
ChatGenerate_Caught ==
    /\ chat.pc = "generate"
    /\ \E completion \in Try({"throws", "null", "empty", "text"}, {"text"}) :
         LET r1 == [chat EXCEPT !.calls = @ \cup {"generate"}, !.completion = completion]
             text == IF completion = "null" THEN chat.settings.fallback_message
                     ELSE << "generated", completion >>
         IN  chat' = IF completion = "throws"
                     THEN ChatAnswer([r1 EXCEPT !.failed = @ \cup {"generate"}],
                                     chat.settings.fallback_message, "false")
                     ELSE ChatAnswer(r1, text, IF chat.route = "plain" THEN "absent" ELSE "true")
    /\ UNCHANGED << call, widget, world, kiRows, embRows, nextId, adm, cli >>

\* part_000:216-249: the generation call is inside the outer try only; the
\* text is `content ?? settings.fallback_message`.  part_001:162-165 sends no
\* from_kb.
ChatGenerate ==
    /\ chat.pc = "generate"
    /\ \E completion \in Try({"throws", "null", "empty", "text"}, {"text"}) :
         LET r1 == [chat EXCEPT !.calls = @ \cup {"generate"}, !.completion = completion]
             text == IF completion = "null" THEN chat.settings.fallback_message
                     ELSE << "generated", completion >>
         IN  chat' = IF completion = "throws"
                     THEN ChatError([r1 EXCEPT !.failed = @ \cup {"generate"}], 500)
                     ELSE ChatAnswer(r1, text, IF chat.route = "plain" THEN "absent" ELSE "true")
    /\ UNCHANGED << call, widget, world, kiRows, embRows, nextId, adm, cli >>

ChatStep ==
    \/ ChatParse
    \/ ChatTenant
    \/ ChatSettings
    \/ ChatEmbed
    \/ ChatSearch
    \/ ChatGenerate

----------------------------------------------------------------------------
Next ==
    \/ \E p \in AdminReqs : AdminStep(p)
    \/ CliStep
    \/ ChatStep

Spec == Init /\ [][Next]_vars

\* The ingestion programs alone, each call they await returning, so that the
\* program takes its next step.  The crawl loops never read the tables: the
\* runs start here from the one store that holds the rows of earlier runs.
FairInit ==
    /\ world \in {"any", "steady"}
    /\ (InitAdmin \/ InitCli)
    /\ kiRows = OldRows /\ embRows = OldRows

IngestNext ==
    \/ \E p \in AdminReqs : AdminStep(p)
    \/ CliStep

FairSpec == FairInit /\ [][IngestNext]_vars /\ WF_vars(IngestNext)

\* Two admin requests for one tenant in flight at once: the route handler
\* runs once per request, and the steps of the two runs interleave at every
\* await.  The site is fixed and every call succeeds.
RaceInit ==
    /\ world = "steady"
    /\ kiRows = OldRows /\ embRows = OldRows /\ nextId = 1
    /\ \E b \in [AdminReqs -> { x \in AdminBodies : x.password = "good" /\ x.slug = "t1"
                                                      /\ x.url.kind = "abs" }] :
          adm = [p \in AdminReqs |-> AdmIdle(b[p], p)]
    /\ cli = CliOff
    /\ chat = ChatOff
    /\ call = CallOff /\ widget = WidgetOff

RaceNext == \E p \in AdminReqs : AdmRunStep(p)

RaceSpec == RaceInit /\ [][RaceNext]_vars

----------------------------------------------------------------------------
(***************************************************************************)
(* chunk called on its own (route.ts:259-271), for every text, window and  *)
(* overlap below the window.                                               *)
(***************************************************************************)
Idle ==
    /\ world = "steady"
    /\ kiRows = {} /\ embRows = {} /\ nextId = 1
    /\ adm = [p \in AdminReqs |-> AdmOff]
    /\ cli = CliOff
    /\ chat = ChatOff

ChunkInit ==
    /\ Idle
    /\ \E text \in AllTexts, size \in 1 .. MaxSize :
         \E overlap \in 0 .. size - 1 : call = CallReady(text, size, overlap)
    /\ widget = WidgetOff

ChunkCall ==
    /\ call.pc = "ready"
    /\ call' = [call EXCEPT !.pc = "returned",
                            !.out = chunk(call.text, call.size, call.overlap)]
    /\ UNCHANGED << world, kiRows, embRows, nextId, adm, cli, chat, widget >>

ChunkSpec == ChunkInit /\ [][ChunkCall]_vars

----------------------------------------------------------------------------
(***************************************************************************)
(* The chat widgets: send of demo/[slug]/page.tsx:53-94, of                *)
(* embed/[slug]/page.tsx:55-88 and of lib/db.ts:59-104 and 385-426.        *)
(***************************************************************************)
WidgetInit ==
    /\ Idle
    /\ call = CallOff
    /\ \E kind \in WidgetKinds, slug \in {"", "t1"} : widget = WidgetIdle(kind, slug)

\* onChange of the input field: setInput(e.target.value)
WType ==
    /\ widget.kind # "off"
    /\ \E t \in WInputs : widget' = [widget EXCEPT !.input = t]
    /\ UNCHANGED << world, kiRows, embRows, nextId, adm, cli, chat, call >>

\* send up to its fetch: blank text or a request in flight returns at once;
\* the demo pages answer a missing slug themselves; else the field is
\* cleared, the user's message appended and the request sent.
WSend ==
    /\ widget.kind # "off"
    /\ Len(widget.messages) < MaxMessages
    /\ \E o \in WOverrides(widget.kind) :
         LET q == Trim(IF o.given THEN o.text ELSE widget.input) IN
         widget' =
            IF q = << >> \/ widget.isSending THEN widget
            ELSE IF widget.kind # "embed" /\ widget.slug = ""
            THEN [widget EXCEPT !.messages =
                     Append(@, Message("assistant", configText(widget.kind), "none"))]
            ELSE [widget EXCEPT !.input = << >>,
                                !.messages = Append(@, Message("user", << "typed", q >>, "none")),
                                !.isSending = TRUE,
                                !.pending = << [slug |-> widget.slug, message |-> q] >>]
    /\ UNCHANGED << world, kiRows, embRows, nextId, adm, cli, chat, call >>

\* The text the demo pages make of a response: a status outside 2xx, a body
\* that is no JSON and `data.text` of null all throw into the catch.
DemoAnswer(kind, res) ==
    IF res.failed \/ ~ok(res) \/ res.body.json # "object" THEN errorText(kind)
    ELSE IF res.body.text \in {"absent", "null"} THEN noAnswerText(kind)
    ELSE << "data.text", res.body.text >>

\* The text the embed page makes of a response: the status is not looked at.
EmbedAnswer(kind, res) ==
    IF res.failed \/ res.body.json = "invalid" THEN errorText(kind)
    ELSE IF res.body.json = "object" /\ res.body.text \in {"empty", "str"}
    THEN << "data.text", res.body.text >>
    ELSE noAnswerText(kind)

From(res) == IF res.failed THEN "failed" ELSE IF ok(res) THEN "ok" ELSE "notok"

\* WSettle with setIsSending(false) as the last statement of the try block.
WSettle_NoFinally ==
    /\ widget.pending # << >>
    /\ \E res \in WResponses :
         LET text == IF widget.kind = "embed" THEN EmbedAnswer(widget.kind, res)
                     ELSE DemoAnswer(widget.kind, res)
         IN  widget' = [widget EXCEPT
                 !.messages = Append(@, Message("assistant", text, From(res))),
                 !.isSending = (text = errorText(widget.kind)),
                 !.pending = << >>]
    /\ UNCHANGED << world, kiRows, embRows, nextId, adm, cli, chat, call >>

\* send from its fetch on: the request settles, one assistant message is
\* appended by the try block or by the catch, and finally isSending is reset.
WSettle ==
    /\ widget.pending # << >>
    /\ \E res \in WResponses :
         LET text == IF widget.kind = "embed" THEN EmbedAnswer(widget.kind, res)
                     ELSE DemoAnswer(widget.kind, res)
         IN  widget' = [widget EXCEPT
                 !.messages = Append(@, Message("assistant", text, From(res))),
                 !.isSending = FALSE,
                 !.pending = << >>]
    /\ UNCHANGED << world, kiRows, embRows, nextId, adm, cli, chat, call >>

WidgetNext ==
    \/ WType
    \/ WSend
    \/ WSettle

WidgetSpec == WidgetInit /\ [][WidgetNext]_vars

----------------------------------------------------------------------------
(***************************************************************************)
(* The claims.                                                             *)
(***************************************************************************)

AdmOk(p) == adm[p].pc = "done" /\ adm[p].resp.ok

\* C1: after an admin run has returned its ok response, every
\* knowledge_items row and every embeddings row of its tenant was inserted
\* by that run, whatever the delete, fetch, insert and embedding calls
\* answered.
C1_NoEarlierRunRows ==
    \A p \in AdminReqs :
        AdmOk(p) =>
            \A x \in kiRows \cup embRows : x.tenant = adm[p].tenant => x.run = adm[p].run

ScoredOf(matches) == SelectSeq(matches, isScored)

\* A request that got as far as the ranking and has been answered.
ChatRanked == chat.pc = "done" /\ "embed" \in chat.calls

IsFallbackAnswer ==
    /\ chat.resp.status = 200 /\ chat.resp.kind = "answer"
    /\ chat.resp.text = chat.settings.fallback_message
    /\ chat.resp.from_kb = "false"

\* C2: when no match with non-empty content and a numeric score remains
\* after the vector search, the generation service is not called and the
\* response is the tenant's fallback message with from_kb = false (stated
\* for the requests without debug=1).
C2_NoKnowledgeNeverGenerates ==
    (ChatRanked /\ ~chat.body.debug /\ ScoredOf(chat.matches) = << >>)
        => ("generate" \notin chat.calls /\ IsFallbackAnswer)

CrawlReturned == cli.pc \in {"page", "ptext", "cki", "cembed", "cemb"}

\* C3: the set of URLs a crawl run marks visited never has more than N
\* elements (maxPages in the admin route, crawlMaxPages in crawlSite) and,
\* from the first page on, contains the seed URL (in crawlSite: without its
\* fragment, as every URL there).
C3_VisitedBoundedWithSeed ==
    /\ \A p \in AdminReqs :
         /\ Cardinality(adm[p].visited) <= maxPages
         /\ (adm[p].visited # {} \/ AdmOk(p)) => adm[p].base \in adm[p].visited
    /\ Len(cli.visited) <= crawlMaxPages
    /\ (cli.visited # << >> \/ CrawlReturned)
           => InSeq(crawlNormalizeUrl(cli.start), cli.visited)

\* C3's case: the budget is used up while URLs are still queued.
C3_Witness ==
    \E p \in AdminReqs :
        Cardinality(adm[p].visited) = maxPages /\ Len(adm[p].queue) > 0

Threshold(route) == IF route = "hard" THEN MIN_SIMILARITY_hard ELSE MIN_SIMILARITY_soft

NoneAbove(matches, t) == \A i \in 1 .. Len(matches) : matches[i].sim < t

\* C4: when the search returns at least one valid match and none has a score
\* >= the threshold, the pipeline uses all valid matches, by descending
\* score, capped to K, as context and calls the generation service (stated
\* for the two routes that have a threshold, without debug=1).
C4_BestAvailableFallback ==
    LET scored == ScoredOf(chat.matches) IN
    ( /\ ChatRanked /\ ~chat.body.debug /\ chat.route \in {"soft", "hard"}
      /\ scored # << >> /\ NoneAbove(scored, Threshold(chat.route)) )
        => ("generate" \in chat.calls /\ chat.context = Slice(SortDesc(scored), topK))

\* C5, as claimed: when the embedding call or the vector search fails, the
\* request is not aborted; the matches are empty, the no-knowledge route is
\* taken and the caller gets a normal response with the fallback message
\* (the routes that have a no-knowledge route: part_000, part_002).
C5_RagFailureGivesFallback ==
    (chat.ragFailed /\ chat.route \in {"soft", "hard"})
        => ( /\ chat.pc = "done" /\ chat.matches = << >>
             /\ "generate" \notin chat.calls /\ IsFallbackAnswer )

\* C5, amended: the same for a request that does not carry debug=1.
C5_RagFailureGivesFallbackUnlessDebug ==
    (chat.ragFailed /\ chat.route \in {"soft", "hard"} /\ ~chat.body.debug)
        => ( /\ chat.pc = "done" /\ chat.matches = << >>
             /\ "generate" \notin chat.calls /\ IsFallbackAnswer )

\* C5's case: the vector search itself failed (the embedding call went
\* through) in the soft route, and the request was answered.
C5_Witness ==
    /\ chat.ragFailed /\ "search" \in chat.calls /\ chat.route = "soft"
    /\ ~chat.body.debug /\ chat.pc = "done"

\* C6: run twice in sequence on an unchanged site with every external call
\* succeeding, ingestion leaves the tenant with as many knowledge items
\* after the second run as after the first, in the admin route and in the
\* script.
C6_RerunSameCount ==
    /\ \A p \in AdminReqs :
         (AdmOk(p) /\ adm[p].run = 2)
             => TenantCount(kiRows, adm[p].tenant) = adm[p].firstCount
    /\ (cli.pc = "exit" /\ cli.code = 0 /\ cli.run = 2)
           => TenantCount(kiRows, cli.tenant) = cli.firstCount

\* C7: a failure of one page or chunk (fetch throws, non-success status,
\* unreadable body, failed embedding call) never fails the run: once the
\* crawl has begun, the admin route ends with its ok response and the script
\* with exit code 0.
C7_PageFailureNeverFailsRun ==
    /\ \A p \in AdminReqs :
         (adm[p].pc = "done" /\ "fetch" \in adm[p].did) => adm[p].resp.ok
    /\ (cli.pc = "exit" /\ cli.tenant # "") => cli.code = 0

\* The URLs the start page's links put in the queue when the page is
\* processed to its end.
SeedLinks(r) == Enqueue(<< >>, Slice(extractLinks(r.seedHtml, r.base), linkCap), {r.base})

\* C8: when persisting one page's item fails, only that item is skipped:
\* the pages the crawl would have reached within the budget are still
\* visited, also when the failing item is the start page.
C8_PersistFailureSkipsOnlyItem ==
    \A p \in AdminReqs :
        AdmOk(p) =>
            \A i \in 1 .. Min(Len(SeedLinks(adm[p])), maxPages - 1) :
                SeedLinks(adm[p])[i] \in adm[p].visited

\* C9: when the tenant cannot be resolved by slug (lookup error, zero rows,
\* more than one row), the chat request ends with an error response and
\* none of settings lookup, embedding, vector search and generation is
\* performed.
C9_TenantFailureIsFatal ==
    ("tenant" \in chat.calls /\ chat.tenant = "")
        => ( /\ chat.pc = "done" /\ chat.calls = {"tenant"}
             /\ chat.resp.kind = "error" /\ chat.resp.status = 500 )

\* C9's case: the slug that two rows of tenants carry was looked up.
C9_Witness ==
    "tenant" \in chat.calls /\ chat.tenant = "" /\ chat.slug = "dd" /\ chat.pc = "done"

\* C10: an admin request whose password is missing or wrong is answered 401
\* and has no effect (no lookup, delete, fetch, embedding call or insert),
\* also when slug or url are missing.
C10_UnauthorizedIs401 ==
    \A p \in AdminReqs :
        (adm[p].pc = "done" /\ adm[p].body.password # "good")
            => (adm[p].resp.status = 401 /\ adm[p].did = {})

\* C11: within one crawl run no URL is visited (fetched) twice, two URLs
\* that differ only in their fragment being the same URL: a URL is fetched
\* when it is marked visited, so no two visited URLs of a run are equal up to
\* their fragment (admin route and crawlSite).
C11_NoUrlVisitedTwice ==
    /\ \A p \in AdminReqs :
         \A u, v \in adm[p].visited :
             crawlNormalizeUrl(u) = crawlNormalizeUrl(v) => u = v
    /\ \A i, j \in 1 .. Len(cli.visited) :
         crawlNormalizeUrl(cli.visited[i]) = crawlNormalizeUrl(cli.visited[j]) => i = j

\* C12: every URL a crawl run visits has the origin (scheme, host, port) of
\* the seed URL, whatever links the crawled pages carry, in the admin
\* route's crawl and in crawlSite.
C12_VisitedSameOrigin ==
    /\ \A p \in AdminReqs :
         \A u \in adm[p].visited : origin(u) = origin(adm[p].base)
    /\ \A i \in 1 .. Len(cli.visited) : origin(cli.visited[i]) = origin(cli.start)

\* A crawl loop is running: of an admin request, or crawlSite.
CrawlRunning ==
    \/ \E p \in AdminReqs : adm[p].pc \in {"loop", "fetch", "body", "insKi", "embed", "insEmb"}
    \/ cli.pc \in {"crawl", "cfetch", "cbody"}

\* C13: every crawl run terminates: for any site (cyclic ones too) and any
\* fetch outcomes, when each call returns, a running crawl loop of the admin
\* route or of crawlSite has ended after finitely many steps (the admin
\* route has responded, crawlSite has returned to main).
C13_CrawlTerminates == [] <> ~CrawlRunning

\* C13's case: crawlSite's loop has ended with the page budget used up and
\* returned to main.
C13_Witness ==
    /\ CrawlReturned /\ Len(cli.visited) = crawlMaxPages
    /\ Len(cli.toVisit) = 0

\* The matches of a list with a score >= t, in the list's order.
AboveOf(matches, t) == SelectSeq(matches, LAMBDA m : m.sim >= t)

\* C14: when at least one valid match has a score >= the threshold T, the
\* context passed to the generation service is exactly the valid matches
\* with score >= T, by descending score, capped to K; no match below T is in
\* it (T is the route's MIN_SIMILARITY; part_001 has none and is held to the
\* soft one; requests without debug=1).
C14_ContextIsAboveThreshold ==
    LET above == AboveOf(ScoredOf(chat.matches), Threshold(chat.route)) IN
    (ChatRanked /\ ~chat.body.debug /\ above # << >>)
        => ("generate" \in chat.calls /\ chat.context = Slice(SortDesc(above), topK))

\* C15: when the generation call raises, the chat request ends with a
\* 5xx error response without answer text; and generation is the only stage
\* after tenant resolution whose failure fails the request: a request whose
\* tenant was resolved ends with an error response only when the generation
\* call raised, whatever the settings lookup, the embedding call and the
\* vector search did.
C15_OnlyGenerationFailureIsFatal ==
    /\ ("generate" \in chat.failed)
           => ( /\ chat.pc = "done" /\ chat.resp.kind = "error"
                /\ chat.resp.status >= 500 /\ chat.resp.text = << >> )
    /\ (chat.pc = "done" /\ chat.tenant # "" /\ chat.resp.kind = "error")
           => "generate" \in chat.failed

\* C15's case: the settings lookup came back empty, the generation call was
\* reached and raised.
C15_Witness ==
    /\ chat.failed = {"settings", "generate"} /\ chat.route = "soft" /\ chat.pc = "done"

\* The response carries the default messages: an answer has the default
\* welcome message and a text that is generated or the default fallback
\* message; the debug payload has the default settings.
CarriesDefaults(resp) ==
    \/ /\ resp.kind = "answer"
       /\ resp.welcome_message = DefaultSettings.welcome_message
       /\ (resp.text = DefaultSettings.fallback_message \/ resp.text[1] = "generated")
    \/ /\ resp.kind = "debug"
       /\ resp.settings = DefaultSettings

\* C16, as claimed: a failed or empty settings lookup never fails the chat
\* request: the pipeline goes on with the default welcome and fallback
\* messages, and every later response of the request carries them.
C16_SettingsFailureUsesDefaults ==
    ("settings" \in chat.failed)
        => ( /\ chat.settings = DefaultSettings
             /\ chat.pc # "settings"
             /\ chat.pc = "done" => CarriesDefaults(chat.resp) )

\* C16, amended: the same for every later response that is not the error
\* response of a generation call that raised; no other error response
\* follows a failed settings lookup.
C16_SettingsFailureUsesDefaultsUnlessGenerationFails ==
    ("settings" \in chat.failed)
        => ( /\ chat.settings = DefaultSettings
             /\ chat.pc # "settings"
             /\ (chat.pc = "done" /\ "generate" \notin chat.failed)
                    => CarriesDefaults(chat.resp) )

\* C16's case: after an empty settings lookup the no-knowledge answer was
\* sent, its text being the default fallback message.
C16_Witness ==
    /\ "settings" \in chat.failed /\ chat.pc = "done" /\ chat.resp.kind = "answer"
    /\ chat.resp.text = DefaultSettings.fallback_message
    /\ "generate" \notin chat.calls

\* C17: every response of the chat endpoint that is neither an error nor
\* the debug payload carries the three fields text, welcome_message and
\* from_kb, on the generated-answer path and on the no-knowledge path, in
\* every variant of the route.
C17_AnswerHasThreeFields ==
    (chat.pc = "done" /\ chat.resp.kind = "answer")
        => ( /\ chat.resp.text # << >>
             /\ chat.resp.welcome_message # << >>
             /\ chat.resp.from_kb \in {"true", "false"} )

\* C18: from_kb is true only when the text is an answer generated from
\* retrieved knowledge; whenever the pipeline puts the tenant's fallback
\* message in place of the text (no knowledge, or a completion without
\* content), from_kb is false.
C18_FromKbOnlyForGeneratedText ==
    (chat.pc = "done" /\ chat.resp.kind = "answer")
        => ( /\ chat.resp.from_kb = "true"
                  => (chat.resp.text[1] = "generated" /\ chat.context # << >>)
             /\ chat.resp.text = chat.settings.fallback_message
                  => chat.resp.from_kb = "false" )

\* The rows of a table that a run inserted for its tenant.
RunCount(rows, tenant, run) ==
    Cardinality({ x \in rows : x.tenant = tenant /\ x.run = run })

\* C19: every knowledge item a run persisted has its one embedding record
\* persisted by the same run: once the run has finished (with its response
\* or exit, normally or by abort), the run has inserted as many embeddings
\* rows as knowledge_items rows for its tenant, whatever the embedding calls
\* and the embedding inserts answered.
C19_OneEmbeddingPerItem ==
    /\ \A p \in AdminReqs :
         (adm[p].pc = "done" /\ adm[p].tenant # "")
             => RunCount(embRows, adm[p].tenant, adm[p].run)
                    = RunCount(kiRows, adm[p].tenant, adm[p].run)
    /\ (cli.pc = "exit" /\ cli.tenant # "")
           => RunCount(embRows, cli.tenant, cli.run) = RunCount(kiRows, cli.tenant, cli.run)

\* C20: when the tenant slug of an admin request cannot be resolved (lookup
\* error, no row, several rows), the request fails with the error "Tenant
\* not found" and the store is unchanged: after the lookup the request is
\* done, it issued no delete, fetched no page and inserted nothing, and none
\* of its steps up to there changed a table.
C20_UnknownTenantLeavesStore ==
    /\ [](\A p \in AdminReqs :
            ("lookup" \in adm[p].did /\ adm[p].tenant = "")
                => ( /\ adm[p].pc = "done" /\ ~adm[p].resp.ok
                     /\ adm[p].resp.status = 500 /\ adm[p].resp.error = "Tenant not found"
                     /\ adm[p].did = {"lookup"} ))
    /\ [][\A p \in AdminReqs :
            (adm[p].pc \in {"start", "tenant"} /\ adm'[p] # adm[p])
                => UNCHANGED << kiRows, embRows, nextId >>]_vars

\* C20's case: a slug no tenant has was looked up while the store held rows
\* of earlier runs.
C20_Witness ==
    \E p \in AdminReqs :
        /\ adm[p].pc = "done" /\ adm[p].body.slug = "zz"
        /\ adm[p].resp.error = "Tenant not found"
        /\ kiRows = OldRows /\ embRows = OldRows

\* C21: a chat request that supplies no message or no slug is answered 400
\* and triggers no tenant lookup and no embedding, search or generation
\* call, in every variant of the route.
C21_MissingFieldIs400 ==
    (chat.pc = "done" /\ (chat.body.message = "" \/ chat.body.slug = ""))
        => (chat.resp.status = 400 /\ chat.calls = {})

\* C22: a chat request with debug=1 never calls the generation service:
\* after tenant, settings and vector search it is answered with the match
\* set together with the threshold, whether or not a match was found.
C22_DebugNeverGenerates ==
    (ChatRanked /\ chat.body.debug)
        => ( /\ "generate" \notin chat.calls
             /\ chat.resp.kind = "debug"
             /\ chat.resp.threshold = Threshold(chat.route) )

\* C28: when the generation call returns without raising but yields no
\* completion content (absent, null or the empty string), the response text
\* is the tenant's fallback message.
C28_EmptyCompletionGivesFallback ==
    (chat.pc = "done" /\ chat.resp.kind = "answer"
       /\ chat.completion \in {"null", "empty"})
        => chat.resp.text = chat.settings.fallback_message

NoDuplicate(q) == \A i, j \in 1..Len(q) : q[i] = q[j] => i = j

C25_AdminQueue ==
    \A p \in AdminReqs :
        /\ NoDuplicate(adm[p].queue)
        /\ Cardinality(adm[p].visited) + Len(adm[p].queue) <= maxPages

C25_CrawlQueue ==
    /\ NoDuplicate(cli.toVisit)
    /\ Len(cli.visited) + Len(cli.toVisit) <= crawlMaxPages

\* C25: during a crawl a link is enqueued only if it is neither visited nor
\* queued and only while page budget remains: in every state of the crawl
\* loop the queue holds no duplicate URL and |visited| + |queue| <= N.
C25_QueueWithinBudget == C25_AdminQueue /\ C25_CrawlQueue

\* A run that has resolved tenant T is in progress or has ended.
RunsFor(T) == (\E p \in AdminReqs : adm[p].tenant = T) \/ cli.tenant = T

Changed(before, after) == (after \ before) \cup (before \ after)

\* C29: an ingestion run for tenant T deletes and inserts only
\* knowledge_items and embeddings rows whose tenant_id is T's id: every row
\* that a step adds or removes belongs to the tenant of a run, and the rows
\* of every other tenant are left as they were.
C29_OnlyOwnTenantRows ==
    [][ \A x \in Changed(kiRows, kiRows') \cup Changed(embRows, embRows') :
            RunsFor(x.tenant) ]_vars

C29_Witness ==
    \E p \in AdminReqs :
        /\ AdmOk(p) /\ adm[p].tenant = "t1"
        /\ \E x \in kiRows : x.tenant = "t1" /\ x.run = adm[p].run
        /\ \A x \in OldRows : x.tenant = "t1" => x \notin kiRows \cup embRows
        /\ \E x \in OldRows : x.tenant = "t2" /\ x \in kiRows /\ x \in embRows

\* C23: ingestion runs for one tenant are not serialized: while a run is
\* between its first delete and its response, the next step of another
\* request for the same tenant is never held back, so the delete and insert
\* steps of the two runs interleave.
C23_RunsNotSerialized ==
    \A p, q \in AdminReqs :
        (p # q /\ AdmBusy(p) /\ adm[q].pc \notin {"done", "off"})
            => ENABLED AdmRunStep(q)

\* Both runs have ended with their ok response and the tenant's store holds
\* rows of the one and of the other.
C23_Witness ==
    /\ \A p \in AdminReqs : AdmOk(p) /\ adm[p].tenant = "t1"
    /\ \A p \in AdminReqs :
         \E x \in kiRows : x.tenant = "t1" /\ x.run = adm[p].run

HasLetter(text) == \E i \in 1 .. Len(text) : text[i] # " "

AllNonEmpty(out) == \A k \in 1 .. Len(out) : out[k] # << >>

Returned == call.pc = "returned"

\* ceil(a / b) for b > 0
CeilDiv(a, b) == -((-a) \div b)

Abs(n) == IF n < 0 THEN -n ELSE n

\* The k-th window of a text: text.slice((k-1)(W-O), (k-1)(W-O) + W).
WindowAt(text, size, overlap, k) ==
    SubSeq(text, (k - 1) * (size - overlap) + 1,
           Min((k - 1) * (size - overlap) + size, Len(text)))

\* No window that starts inside the text is white space only.
NoBlankWindow(text, size, overlap) ==
    \A k \in 1 .. CeilDiv(Len(text), size - overlap) :
        HasLetter(WindowAt(text, size, overlap, k))

\* C26, as claimed: chunk(text, W, O) with O < W returns at least one chunk
\* for every non-empty input text, and every chunk it returns is non-empty.
C26_AtLeastOneChunk ==
    (Returned /\ call.text # << >>)
        => (Len(call.out) >= 1 /\ AllNonEmpty(call.out))

\* C26, amended: chunk(text, W, O) with O < W returns at least one chunk
\* exactly when the text holds a character that is not white space, and
\* every chunk it returns is non-empty.
C26_AtLeastOneChunkIffLetter ==
    Returned
        => ( /\ Len(call.out) >= 1 <=> HasLetter(call.text)
             /\ AllNonEmpty(call.out) )

\* A text with a letter and a blank window: chunks are returned, fewer than
\* there are windows.
C26_Witness ==
    /\ Returned /\ HasLetter(call.text)
    /\ Len(call.out) >= 1
    /\ Len(call.out) < CeilDiv(Len(call.text), call.size - call.overlap)

\* What C27 says of each chunk: it is the k-th window, W - O after the one
\* before it, with its white space collapsed and trimmed, and no longer
\* than W.
ChunksAreWindows ==
    \A k \in 1 .. Len(call.out) :
        /\ Len(call.out[k]) <= call.size
        /\ call.out[k] = Trim(CollapseWs(WindowAt(call.text, call.size, call.overlap, k)))

\* C27, as claimed: for a text of length L without white-space-only windows
\* chunk(text, W, O) with O < W returns a number of chunks that differs from
\* ceil((L - O) / (W - O)) by at most one, each chunk of length <= W and
\* consecutive windows starting W - O apart.
C27_ChunkCount ==
    (Returned /\ NoBlankWindow(call.text, call.size, call.overlap))
        => ( /\ Abs(Len(call.out)
                     - CeilDiv(Len(call.text) - call.overlap, call.size - call.overlap)) <= 1
             /\ ChunksAreWindows )

\* C27, amended: the number of chunks is ceil(L / (W - O)), which differs
\* from ceil((L - O) / (W - O)) by at most one when 2 * O <= W; each chunk is
\* of length <= W and consecutive windows start W - O apart.
C27_ChunkCountExact ==
    (Returned /\ NoBlankWindow(call.text, call.size, call.overlap))
        => ( /\ Len(call.out) = CeilDiv(Len(call.text), call.size - call.overlap)
             /\ (2 * call.overlap <= call.size =>
                    Abs(Len(call.out)
                        - CeilDiv(Len(call.text) - call.overlap, call.size - call.overlap)) <= 1)
             /\ ChunksAreWindows )

\* A text longer than the window, cut with overlap into three chunks or more.
C27_Witness ==
    /\ Returned /\ NoBlankWindow(call.text, call.size, call.overlap)
    /\ call.overlap > 0 /\ Len(call.text) > call.size
    /\ Len(call.out) >= 3

\* C24: in the chat widgets, whatever the chat endpoint returns (any status,
\* any JSON body, a network failure), an assistant message shown is the
\* text field of a successful response or one of the widget's fixed
\* messages.
C24_ShownTextIsAnswerOrFixed ==
    \A i \in 1 .. Len(widget.messages) :
        LET m == widget.messages[i] IN
        m.role = "assistant"
            => (m.text[1] = "fixed" \/ (m.text[1] = "data.text" /\ m.from = "ok"))

InFlight == widget.pending # << >>

\* C30: in each chat widget an accepted send appends exactly one user
\* message and starts the request; when the request settles, with any
\* outcome, exactly one assistant message is appended after it and isSending
\* is false again; no other step adds a user message.
C30_OneAnswerPerSend ==
    /\ [](widget.isSending <=> InFlight)
    /\ [][ /\ (~InFlight /\ InFlight')
             => /\ widget.messages' =
                     Append(widget.messages,
                            Message("user", << "typed", widget.pending'[1].message >>, "none"))
                /\ widget.pending'[1].message # << >>
           /\ (InFlight /\ ~InFlight')
             => /\ Len(widget.messages') = Len(widget.messages) + 1
                /\ SubSeq(widget.messages', 1, Len(widget.messages)) = widget.messages
                /\ widget.messages'[Len(widget.messages')].role = "assistant"
                /\ widget.messages[Len(widget.messages)].role = "user"
                /\ ~widget.isSending'
           /\ (InFlight <=> InFlight')
             => \/ widget.messages' = widget.messages
                \/ /\ widget.slug = "" /\ widget.kind # "embed"
                   /\ widget.messages' =
                        Append(widget.messages,
                               Message("assistant", configText(widget.kind), "none")) ]_vars

\* Two sends settled, one by a network failure and one by a response.
C30_Witness ==
    /\ ~InFlight /\ ~widget.isSending
    /\ Len(widget.messages) >= 4
    /\ \E i, j \in 1 .. Len(widget.messages) :
         /\ widget.messages[i].from = "failed"
         /\ widget.messages[j].from = "ok"

=============================================================================
